---- MODULE Spec2Model ----
(***************************************************************************)
(* Model of src/main.py: a Flask webhook that extracts policy number,      *)
(* insurance provider and date of birth from a Dialogflow CX request and   *)
(* verifies them against the Firestore 'patients' collection.              *)
(***************************************************************************)
EXTENDS Integers, Sequences, FiniteSets, TLC

\* ------------------------------------------------------------------------
\* Bounds of the model
\* ------------------------------------------------------------------------
NumRequests == 2    \* handler invocations that may be in flight together
MaxRecords == 2     \* largest number of documents in the patients collection

\* ------------------------------------------------------------------------
\* Python / JSON values.  A string is a TLA+ string, so that f-strings are
\* concatenations and int() parses characters.
\* ------------------------------------------------------------------------
PyNone == [t |-> "none"]                \* None; also a JSON null
Absent == [t |-> "absent"]              \* marks a key the dict does not hold
JStr(s) == [t |-> "str", s |-> s]
JInt(n) == [t |-> "int", n |-> n]
JFloat(ip, frac) == [t |-> "float", ip |-> ip, frac |-> frac]  \* ip.frac, one decimal
EmptyDict == [t |-> "dict"]             \* the {} of the .get defaults

IsDict(v) == v.t = "dict"
Keys(o) == {k \in DOMAIN o \ {"t"} : o[k].t /= "absent"}

\* dict.get(k, default)
Get(o, k, default) == IF k \in Keys(o) THEN o[k] ELSE default

\* Python truth value, as used by all([...])
Truthy(v) ==
  CASE v.t = "str" -> v.s /= ""
    [] v.t = "int" -> v.n /= 0
    [] v.t = "float" -> ~(v.ip = 0 /\ v.frac = 0)
    [] v.t = "dict" -> Keys(v) /= {}
    [] OTHER -> FALSE

\* ------------------------------------------------------------------------
\* int(x) and the format specs of line 79
\* ------------------------------------------------------------------------
DigitChars == <<"0", "1", "2", "3", "4", "5", "6", "7", "8", "9">>
IsDigit(c) == \E i \in 1..10 : DigitChars[i] = c
DigitVal(c) == (CHOOSE i \in 1..10 : DigitChars[i] = c) - 1

RECURSIVE ParseDigits(_)
ParseDigits(s) ==
  IF Len(s) = 0 THEN 0
  ELSE 10 * ParseDigits(SubSeq(s, 1, Len(s) - 1)) + DigitVal(SubSeq(s, Len(s), Len(s)))

AllDigits(s) == Len(s) > 0 /\ \A i \in 1..Len(s) : IsDigit(SubSeq(s, i, i))

IntOk(n) == [ok |-> TRUE, n |-> n, err |-> ""]
IntErr(e) == [ok |-> FALSE, n |-> 0, err |-> e]

\* int(v): an int is itself, a float is truncated, a string must be a
\* decimal integer literal (a "." makes int() raise ValueError), None and
\* containers raise TypeError.
PyInt(v) ==
  CASE v.t = "int" -> IntOk(v.n)
    [] v.t = "float" -> IntOk(v.ip)
    [] v.t = "str" -> IF AllDigits(v.s) THEN IntOk(ParseDigits(v.s)) ELSE IntErr("ValueError")
    [] OTHER -> IntErr("TypeError")

RECURSIVE Digits(_)
Digits(n) ==
  IF n < 10 THEN DigitChars[n + 1]
  ELSE Digits(n \div 10) \o DigitChars[(n % 10) + 1]

\* f"{n}"
FormatInt(n) == Digits(n)
\* f"{n:02d}"
Format02d(n) == IF n < 10 THEN "0" \o Digits(n) ELSE Digits(n)

\* str(x) inside an f-string, for the values the requests carry
PyStr(v) == IF v.t = "str" THEN v.s ELSE IF v.t = "int" THEN Digits(v.n) ELSE "None"

DobOk(s) == [ok |-> TRUE, s |-> s, err |-> ""]
DobErr(e) == [ok |-> FALSE, s |-> "", err |-> e]

\* Variant of line 79 that defaults an absent month or day to 1.
FormatDobDefaultOne(dob) ==
  IF ~IsDict(dob) THEN DobErr("AttributeError")
  ELSE LET y == PyInt(Get(dob, "year", PyNone))
           m == PyInt(Get(dob, "month", JInt(1)))
           d == PyInt(Get(dob, "day", JInt(1)))
       IN IF ~y.ok THEN DobErr(y.err)
          ELSE IF ~m.ok THEN DobErr(m.err)
          ELSE IF ~d.ok THEN DobErr(d.err)
          ELSE DobOk(FormatInt(y.n) \o "-" \o Format02d(m.n) \o "-" \o Format02d(d.n))

\* Line 79: f"{int(dob.get('year'))}-{int(dob.get('month', 0)):02d}-{int(dob.get('day', 0)):02d}"
\* .get on a value that is no dict raises AttributeError; int() may raise.
FormatDob(dob) ==
  IF ~IsDict(dob) THEN DobErr("AttributeError")
  ELSE LET y == PyInt(Get(dob, "year", PyNone))
           m == PyInt(Get(dob, "month", JInt(0)))
           d == PyInt(Get(dob, "day", JInt(0)))
       IN IF ~y.ok THEN DobErr(y.err)
          ELSE IF ~m.ok THEN DobErr(m.err)
          ELSE IF ~d.ok THEN DobErr(d.err)
          ELSE DobOk(FormatInt(y.n) \o "-" \o Format02d(m.n) \o "-" \o Format02d(d.n))

\* ------------------------------------------------------------------------
\* Parameter extraction, lines 58-64
\* ------------------------------------------------------------------------
Extracted(pn, prov, dob) ==
  [ok |-> TRUE, policy_number |-> pn, provider |-> prov, dob_obj |-> dob]
ExtractErr == [ok |-> FALSE, policy_number |-> PyNone, provider |-> PyNone, dob_obj |-> PyNone]

ExtractParams(rq) ==
  IF ~IsDict(rq) THEN ExtractErr
  ELSE LET session_info == Get(rq, "sessionInfo", EmptyDict) IN
    IF ~IsDict(session_info) THEN ExtractErr
    ELSE LET params == Get(session_info, "parameters", EmptyDict) IN
      IF ~IsDict(params) THEN ExtractErr
      ELSE Extracted(Get(params, "policy_number", JStr("")),
                     Get(params, "insurance_provider_name", JStr("")),
                     Get(params, "date_of_birth", EmptyDict))

\* Variant of line 74 that forgets the date of birth.
AllPresentNoDob(pn, prov, dob) == Truthy(pn) /\ Truthy(prov)

\* Line 74: all([patient_policy_number, patient_provider, patient_dob_obj])
AllPresent(pn, prov, dob) == Truthy(pn) /\ Truthy(prov) /\ Truthy(dob)

\* ------------------------------------------------------------------------
\* Response texts
\* ------------------------------------------------------------------------
PROMPT == "Please provide your policy number, insurance provider, and date of birth to proceed with verification."
NOT_FOUND == "We could not find a patient with the information you provided. Please check your details and try again."
APOLOGY == "Sorry, I am having trouble connecting to the database. Please try again later."

\* Line 128
VerifiedText(provider, policy_number) ==
  "Thank you. Your insurance with " \o PyStr(provider) \o " and policy number "
    \o PyStr(policy_number) \o " has been verified."

\* Variant of line 134 that appends the exception to the reply.
QueryFailedTextWithCause(e) == APOLOGY \o " (" \o e \o ")"

\* Lines 132-134: the exception is logged, the reply is fixed.
QueryFailedText(e) == APOLOGY

\* ------------------------------------------------------------------------
\* The patients collection and the compound query, lines 115-123
\* ------------------------------------------------------------------------
\* Firestore '==' on a string field: same type, same characters.
FieldEq(field, v) == v.t = "str" /\ field = v.s

Lower(s) == IF s = "Acme" THEN "acme" ELSE s
FieldEqFold(field, v) == v.t = "str" /\ Lower(field) = Lower(v.s)

\* Variant of the query that compares the provider without regard to case.
QueryStreamFold(st, policy_number, provider, dob) ==
  {doc \in st : /\ FieldEq(doc.policyNumber, policy_number)
                /\ FieldEqFold(doc.insuranceProvider, provider)
                /\ doc.dateOfBirth = dob}

QueryStream(st, policy_number, provider, dob) ==
  {doc \in st : /\ FieldEq(doc.policyNumber, policy_number)
                /\ FieldEq(doc.insuranceProvider, provider)
                /\ doc.dateOfBirth = dob}

\* Variant of the lookup that records the attempt in the collection.
StoreAfterLookupMarking(st, policy_number, provider, dob) ==
  st \cup {[policyNumber |-> PyStr(policy_number), insuranceProvider |-> "attempted",
            dateOfBirth |-> dob]}

\* The collection after collection/where/stream: only reads are issued.
StoreAfterLookup(st, policy_number, provider, dob) == st

NoFault == "none"
Faults == {"ServiceUnavailable", "PermissionDenied"}

\* Lines 110-134.  fault is what the store raised inside the try block.
verify_patient_insurance(policy_number, provider, dob, st, fault) ==
  IF fault /= NoFault THEN QueryFailedText(fault)
  ELSE IF QueryStream(st, policy_number, provider, dob) /= {}
       THEN VerifiedText(provider, policy_number)
       ELSE NOT_FOUND

\* Lines 89-99 and 107: the Dialogflow CX envelope, HTTP 200.
Envelope(text) ==
  [status |-> 200,
   fulfillmentResponse |-> [messages |-> << [text |-> [text |-> <<text>>]] >>]]
\* What Flask answers when the view function raises.
InternalServerError == [status |-> 500, fulfillmentResponse |-> [messages |-> <<>>]]
NoReply == [status |-> 0, fulfillmentResponse |-> [messages |-> <<>>]]

\* ------------------------------------------------------------------------
\* Request bodies (request.get_json, line 49)
\* ------------------------------------------------------------------------
Req(si) == [t |-> "dict", sessionInfo |-> si]
Sess(p) == [t |-> "dict", parameters |-> p]
Params(pn, prov, dob) ==
  [t |-> "dict", policy_number |-> pn, insurance_provider_name |-> prov, date_of_birth |-> dob]
Dob(y, m, d) == [t |-> "dict", year |-> y, month |-> m, day |-> d]

\* The encodings Dialogflow may use for one date component
Encodings == {"int", "str", "float", "floatstr"}
Encode(n, e) ==
  CASE e = "int" -> JInt(n)
    [] e = "str" -> JStr(Digits(n))
    [] e = "float" -> JFloat(n, 0)
    [] e = "floatstr" -> JStr(Digits(n) \o ".0")

Years == {1985, 2024}
Months == {6, 12}
Days == {9}
YearVals == {Encode(n, e) : n \in Years, e \in Encodings} \cup {Absent, JStr("abc")}
MonthVals == {Encode(n, e) : n \in Months, e \in Encodings} \cup {Absent, JStr("abc"), JFloat(6, 5)}
DayVals == {Encode(n, e) : n \in Days, e \in Encodings} \cup {Absent, PyNone}

DatePayloads ==
  {Req(Sess(Params(JStr("P100"), JStr("Acme"), Dob(y, m, d)))) :
     y \in YearVals, m \in MonthVals, d \in DayVals}

PolicyVals == {Absent, JStr(""), JStr("P100"), JStr("A1")}
ProviderVals == {Absent, PyNone, JStr("Acme"), JStr("acme")}
DobVals == {Absent, Dob(Absent, Absent, Absent), JStr(""), JStr("1985-06-09"),
            Dob(JInt(1985), JInt(6), JInt(9)), Dob(Absent, JInt(6), JInt(9))}

StructPayloads ==
  {Req(Sess(Params(pn, prov, dob))) : pn \in PolicyVals, prov \in ProviderVals, dob \in DobVals}

MalformedPayloads ==
  {JInt(7), Req(JStr("x")), Req(PyNone), Req(Sess(JStr("x"))), Req(Sess(PyNone)),
   Req(Absent), Req(Sess(Absent))}

Payloads == StructPayloads \cup MalformedPayloads

ConcPayloads ==
  {Req(Sess(Params(JStr("P100"), JStr("Acme"), Dob(JInt(1985), JInt(6), JInt(9))))),
   Req(Sess(Params(JStr("P100"), JStr("acme"), Dob(JFloat(1985, 0), JStr("6"), JInt(9))))),
   Req(Sess(Params(JStr("P100"), Absent, Dob(JInt(1985), JInt(6), JInt(9))))),
   Req(Sess(Params(JStr("P100"), JStr("Acme"), JStr("1985-06-09"))))}

\* Contents of the 'patients' collection
RecordUniverse ==
  [policyNumber : {"P100", "A1"}, insuranceProvider : {"Acme", "acme"},
   dateOfBirth : {"1985-06-09", "1985-12-09"}]
Stores == {s \in SUBSET RecordUniverse : Cardinality(s) <= MaxRecords}
ConcStores ==
  {s \in Stores : s \subseteq {[policyNumber |-> "P100", insuranceProvider |-> "Acme",
                                dateOfBirth |-> "1985-06-09"]}}

Requests == 1..NumRequests

\* ------------------------------------------------------------------------
\* State
\* ------------------------------------------------------------------------
VARIABLES
  proc,                    \* position of the module-level code, lines 18-34 and 137-139
  app,                     \* the default Firebase app exists
  init_error,              \* line 31 has logged "Error initializing Firebase"
  store,                   \* documents of the 'patients' collection
  pc,                      \* position of each in-flight call of webhook()
  req,                     \* line 49
  patient_policy_number,   \* line 62
  patient_provider,        \* line 63
  patient_dob_obj,         \* line 64
  dob_string,              \* line 79
  response_text,           \* lines 75, 82
  reply,                   \* what the HTTP client receives
  calls,                   \* lookups issued for the call in flight
  fault,                   \* what the store raised for the call in flight
  seen                     \* collection contents read by the lookup

vars == <<proc, app, init_error, store, pc, req, patient_policy_number, patient_provider,
          patient_dob_obj, dob_string, response_text, reply, calls, fault, seen>>

startupVars == <<proc, app, init_error>>
handlerVars == <<pc, req, patient_policy_number, patient_provider, patient_dob_obj,
                 dob_string, response_text, reply, calls, fault, seen>>

InitWith(S) ==
  /\ proc = "init_default"
  /\ app = FALSE
  /\ init_error = FALSE
  /\ store \in S
  /\ pc = [r \in Requests |-> "idle"]
  /\ req = [r \in Requests |-> PyNone]
  /\ patient_policy_number = [r \in Requests |-> PyNone]
  /\ patient_provider = [r \in Requests |-> PyNone]
  /\ patient_dob_obj = [r \in Requests |-> PyNone]
  /\ dob_string = [r \in Requests |-> ""]
  /\ response_text = [r \in Requests |-> ""]
  /\ reply = [r \in Requests |-> NoReply]
  /\ calls = [r \in Requests |-> 0]
  /\ fault = [r \in Requests |-> NoFault]
  /\ seen = [r \in Requests |-> {}]

Init == InitWith(Stores)
InitConc == InitWith(ConcStores)

\* ------------------------------------------------------------------------
\* Module-level code
\* ------------------------------------------------------------------------
\* Lines 18-25: ApplicationDefault + initialize_app; only ValueError is caught.
InitDefault ==
  /\ proc = "init_default"
  /\ \E outcome \in {"ok", "ValueError", "OtherError"} :
       /\ app' = (outcome = "ok")
       /\ proc' = CASE outcome = "ok" -> "client"
                    [] outcome = "ValueError" -> "init_cert"
                    [] OTHER -> "crashed"
  /\ UNCHANGED <<init_error, store, handlerVars>>

\* Lines 26-32: Certificate + initialize_app; any Exception is logged.
InitCertificate ==
  /\ proc = "init_cert"
  /\ \E outcome \in {"ok", "Exception"} :
       /\ app' = (outcome = "ok")
       /\ init_error' = (outcome /= "ok")
  /\ proc' = "client"
  /\ UNCHANGED <<store, handlerVars>>

\* Line 34: db = firestore.client(), outside any try.  Without a default app
\* firebase_admin raises ValueError; with one, building the client may still
\* raise.  Lines 137-139 then start serving.
CreateClient ==
  /\ proc = "client"
  /\ \E outcome \in {"ok", "Exception"} :
       proc' = IF app /\ outcome = "ok" THEN "serving" ELSE "crashed"
  /\ UNCHANGED <<app, init_error, store, handlerVars>>

Startup == InitDefault \/ InitCertificate \/ CreateClient

\* The external administrative process that owns the collection.
AdminWrite(S) ==
  /\ \E s \in S :
       /\ Cardinality((s \ store) \cup (store \ s)) = 1
       /\ store' = s
  /\ UNCHANGED <<startupVars, handlerVars>>

\* ------------------------------------------------------------------------
\* webhook(), one call per element of Requests
\* ------------------------------------------------------------------------
\* Flask turns an exception that leaves the view function into a 500.
Raise(r) ==
  /\ reply' = [reply EXCEPT ![r] = InternalServerError]
  /\ pc' = [pc EXCEPT ![r] = "done"]

\* Line 49: a POST arrives while the process serves.
Receive(r, P) ==
  /\ proc = "serving"
  /\ pc[r] = "idle"
  /\ \E body \in P : req' = [req EXCEPT ![r] = body]
  /\ pc' = [pc EXCEPT ![r] = "extract"]
  /\ UNCHANGED <<startupVars, store, patient_policy_number, patient_provider,
                 patient_dob_obj, dob_string, response_text, reply, calls, fault, seen>>

\* Lines 58-64
Extract(r) ==
  /\ pc[r] = "extract"
  /\ LET e == ExtractParams(req[r]) IN
       IF e.ok
       THEN /\ patient_policy_number' = [patient_policy_number EXCEPT ![r] = e.policy_number]
            /\ patient_provider' = [patient_provider EXCEPT ![r] = e.provider]
            /\ patient_dob_obj' = [patient_dob_obj EXCEPT ![r] = e.dob_obj]
            /\ pc' = [pc EXCEPT ![r] = "check"]
            /\ UNCHANGED reply
       ELSE /\ Raise(r)
            /\ UNCHANGED <<patient_policy_number, patient_provider, patient_dob_obj>>
  /\ UNCHANGED <<startupVars, store, req, dob_string, response_text, calls, fault, seen>>

\* Lines 74-79
Check(r) ==
  /\ pc[r] = "check"
  /\ IF ~AllPresent(patient_policy_number[r], patient_provider[r], patient_dob_obj[r])
     THEN /\ response_text' = [response_text EXCEPT ![r] = PROMPT]
          /\ pc' = [pc EXCEPT ![r] = "render"]
          /\ UNCHANGED <<dob_string, reply>>
     ELSE LET d == FormatDob(patient_dob_obj[r]) IN
          IF d.ok
          THEN /\ dob_string' = [dob_string EXCEPT ![r] = d.s]
               /\ pc' = [pc EXCEPT ![r] = "query"]
               /\ UNCHANGED <<response_text, reply>>
          ELSE /\ Raise(r)
               /\ UNCHANGED <<dob_string, response_text>>
  /\ UNCHANGED <<startupVars, store, req, patient_policy_number, patient_provider,
                 patient_dob_obj, calls, fault, seen>>

\* Variant of lines 82-86 that passes the values of the oldest call in flight,
\* as module-level variables shared by the handlers would.
QueryArgsShared(r) ==
  LET q == CHOOSE x \in Requests :
             /\ pc[x] = "query"
             /\ \A z \in Requests : pc[z] = "query" => x <= z
  IN [policy_number |-> patient_policy_number[q], provider |-> patient_provider[q],
      dob |-> dob_string[q]]

\* Lines 82-86: the arguments are the locals of this call.
QueryArgs(r) ==
  [policy_number |-> patient_policy_number[r], provider |-> patient_provider[r],
   dob |-> dob_string[r]]

\* Variant of the except branch that runs the lookup again.
PcAfterQueryRetrying(f) == IF f /= NoFault THEN "query" ELSE "render"

\* Lines 128, 131, 134: every branch of verify_patient_insurance returns to line 89.
PcAfterQuery(f) == "render"

\* Lines 82-86 and 110-134: one lookup, which the store may fail.
Query(r) ==
  /\ pc[r] = "query"
  /\ \E f \in {NoFault} \cup Faults :
       LET a == QueryArgs(r) IN
         /\ response_text' = [response_text EXCEPT ![r] =
                verify_patient_insurance(a.policy_number, a.provider, a.dob, store, f)]
         /\ store' = StoreAfterLookup(store, a.policy_number, a.provider, a.dob)
         /\ fault' = [fault EXCEPT ![r] = f]
         /\ pc' = [pc EXCEPT ![r] = PcAfterQuery(f)]
  /\ calls' = [calls EXCEPT ![r] = @ + 1]
  /\ seen' = [seen EXCEPT ![r] = store]
  /\ UNCHANGED <<startupVars, req, patient_policy_number, patient_provider,
                 patient_dob_obj, dob_string, reply>>

\* Lines 89-107
Render(r) ==
  /\ pc[r] = "render"
  /\ reply' = [reply EXCEPT ![r] = Envelope(response_text[r])]
  /\ pc' = [pc EXCEPT ![r] = "done"]
  /\ UNCHANGED <<startupVars, store, req, patient_policy_number, patient_provider,
                 patient_dob_obj, dob_string, response_text, calls, fault, seen>>

\* The call has returned: its locals are gone.
Finish(r) ==
  /\ pc[r] = "done"
  /\ pc' = [pc EXCEPT ![r] = "idle"]
  /\ req' = [req EXCEPT ![r] = PyNone]
  /\ patient_policy_number' = [patient_policy_number EXCEPT ![r] = PyNone]
  /\ patient_provider' = [patient_provider EXCEPT ![r] = PyNone]
  /\ patient_dob_obj' = [patient_dob_obj EXCEPT ![r] = PyNone]
  /\ dob_string' = [dob_string EXCEPT ![r] = ""]
  /\ response_text' = [response_text EXCEPT ![r] = ""]
  /\ reply' = [reply EXCEPT ![r] = NoReply]
  /\ calls' = [calls EXCEPT ![r] = 0]
  /\ fault' = [fault EXCEPT ![r] = NoFault]
  /\ seen' = [seen EXCEPT ![r] = {}]
  /\ UNCHANGED <<startupVars, store>>

Handler(r) == Extract(r) \/ Check(r) \/ Query(r) \/ Render(r) \/ Finish(r)

\* The whole handler as a function of the body, the collection it reads and
\* the fault the store raises.
webhook(body, st, f) ==
  LET e == ExtractParams(body) IN
  IF ~e.ok THEN InternalServerError
  ELSE IF ~AllPresent(e.policy_number, e.provider, e.dob_obj) THEN Envelope(PROMPT)
  ELSE LET d == FormatDob(e.dob_obj) IN
       IF ~d.ok THEN InternalServerError
       ELSE Envelope(verify_patient_insurance(e.policy_number, e.provider, d.s, st, f))

\* ------------------------------------------------------------------------
\* Specifications
\* ------------------------------------------------------------------------
\* One call at a time, every shape of request body, every collection.
Next ==
  \/ InitDefault
  \/ InitCertificate
  \/ CreateClient
  \/ AdminWrite(Stores)
  \/ Receive(1, Payloads)
  \/ Extract(1)
  \/ Check(1)
  \/ Query(1)
  \/ Render(1)
  \/ Finish(1)

Spec == Init /\ [][Next]_vars

\* One call at a time, every encoding of the date of birth.
NextDate ==
  \/ InitDefault
  \/ InitCertificate
  \/ CreateClient
  \/ AdminWrite(ConcStores)
  \/ Receive(1, DatePayloads)
  \/ Extract(1)
  \/ Check(1)
  \/ Query(1)
  \/ Render(1)
  \/ Finish(1)

SpecDate == InitConc /\ [][NextDate]_vars

\* Calls in flight together.
NextConc ==
  \/ InitDefault
  \/ InitCertificate
  \/ CreateClient
  \/ AdminWrite(ConcStores)
  \/ \E r \in Requests : Receive(r, ConcPayloads)
  \/ \E r \in Requests : Extract(r)
  \/ \E r \in Requests : Check(r)
  \/ \E r \in Requests : Query(r)
  \/ \E r \in Requests : Render(r)
  \/ \E r \in Requests : Finish(r)

SpecConc == InitConc /\ [][NextConc]_vars

\* ------------------------------------------------------------------------
\* Properties
\* ------------------------------------------------------------------------
\* What the request body carries, read off the body itself
HasKey(o, k) == IsDict(o) /\ k \in Keys(o)
\* sessionInfo and parameters are objects, or are left out
Shaped(body) ==
  /\ IsDict(body)
  /\ HasKey(body, "sessionInfo") =>
       /\ IsDict(body.sessionInfo)
       /\ HasKey(body.sessionInfo, "parameters") => IsDict(body.sessionInfo.parameters)
SentParams(body) ==
  IF HasKey(body, "sessionInfo") /\ HasKey(body.sessionInfo, "parameters")
  THEN body.sessionInfo.parameters ELSE EmptyDict
IsEmptyValue(v) ==
  \/ v.t = "none"
  \/ v.t = "str" /\ v.s = ""
  \/ v.t = "dict" /\ Keys(v) = {}
EmptyOrAbsent(body, k) ==
  ~HasKey(SentParams(body), k) \/ IsEmptyValue(SentParams(body)[k])
Incomplete(body) ==
  \/ EmptyOrAbsent(body, "policy_number")
  \/ EmptyOrAbsent(body, "insurance_provider_name")
  \/ EmptyOrAbsent(body, "date_of_birth")
Complete(body) == Shaped(body) /\ ~Incomplete(body)

Contains(text, sub) ==
  \E i \in 1..(Len(text) - Len(sub) + 1) : SubSeq(text, i, i + Len(sub) - 1) = sub

WellFormedEnvelope(rep) ==
  /\ rep.status = 200
  /\ Len(rep.fulfillmentResponse.messages) = 1
  /\ Len(rep.fulfillmentResponse.messages[1].text.text) = 1

Answered(r) == pc[r] \in {"render", "done"}

\* C1: a request whose parameters lack, or hold empty, any of policy_number,
\* insurance_provider_name and date_of_birth is answered with the
\* completeness prompt, and no lookup is issued for it.
C1_IncompleteIsPrompted ==
  \A r \in Requests :
    (Shaped(req[r]) /\ Incomplete(req[r])) =>
      /\ calls[r] = 0
      /\ pc[r] /= "query"
      /\ Answered(r) => response_text[r] = PROMPT
      /\ pc[r] = "done" => reply[r] = Envelope(PROMPT)

C1_Witness ==
  \E r \in Requests :
    /\ pc[r] = "done"
    /\ Shaped(req[r])
    /\ ~EmptyOrAbsent(req[r], "policy_number")
    /\ ~EmptyOrAbsent(req[r], "insurance_provider_name")
    /\ EmptyOrAbsent(req[r], "date_of_birth")
    /\ reply[r] = Envelope(PROMPT)
    /\ calls[r] = 0

\* C2: when the lookup of a complete request completes without fault, the
\* answer is the confirmation naming the request's provider and policy number
\* iff some document read equals the request on policyNumber,
\* insuranceProvider and dateOfBirth together, character for character;
\* otherwise it is the not-found message.
RecordEquals(doc, body, dob) ==
  /\ doc.policyNumber = SentParams(body).policy_number.s
  /\ doc.insuranceProvider = SentParams(body).insurance_provider_name.s
  /\ doc.dateOfBirth = dob

C2_ExactMatch ==
  \A r \in Requests :
    (Answered(r) /\ calls[r] = 1 /\ fault[r] = NoFault) =>
      LET p == SentParams(req[r])
          matched == \E doc \in seen[r] : RecordEquals(doc, req[r], dob_string[r])
      IN /\ matched =>
              /\ response_text[r] = VerifiedText(p.insurance_provider_name, p.policy_number)
              /\ Contains(response_text[r], p.insurance_provider_name.s)
              /\ Contains(response_text[r], p.policy_number.s)
         /\ ~matched => response_text[r] = NOT_FOUND
         /\ response_text[r] /= NOT_FOUND => matched

\* A lookup for provider "acme" against a collection holding the same policy
\* and date under "Acme", next to a document that agrees on two fields only.
C2_Witness ==
  \E r \in Requests :
    /\ pc[r] = "done"
    /\ calls[r] = 1
    /\ fault[r] = NoFault
    /\ SentParams(req[r]).insurance_provider_name = JStr("acme")
    /\ \E doc \in seen[r] :
         /\ doc.policyNumber = SentParams(req[r]).policy_number.s
         /\ doc.insuranceProvider = "Acme"
         /\ doc.dateOfBirth = dob_string[r]
    /\ \E doc \in seen[r] :
         /\ doc.policyNumber /= SentParams(req[r]).policy_number.s
         /\ doc.insuranceProvider = "acme"
         /\ doc.dateOfBirth = dob_string[r]
    /\ reply[r] = Envelope(NOT_FOUND)

\* C3: when the store raises during the lookup, the answer is the fixed
\* apology, without the text of the fault, inside the normal envelope.
C3_FaultIsApology ==
  \A r \in Requests :
    fault[r] /= NoFault =>
      /\ response_text[r] = APOLOGY
      /\ ~Contains(response_text[r], fault[r])
      /\ pc[r] = "done" =>
           /\ reply[r] = Envelope(APOLOGY)
           /\ WellFormedEnvelope(reply[r])

C3_Witness ==
  \E r \in Requests :
    /\ pc[r] = "done"
    /\ fault[r] = "PermissionDenied"
    /\ reply[r].fulfillmentResponse.messages[1].text.text[1] = APOLOGY

\* C4: every request body that is a JSON object is answered with a
\* well-formed envelope; a malformed one never surfaces as an unhandled fault.
C4_AlwaysEnvelope ==
  \A r \in Requests :
    (pc[r] = "done" /\ IsDict(req[r])) => WellFormedEnvelope(reply[r])

\* C5: a date of birth whose components are each an int, a numeric string,
\* a float or a float-encoded string is looked up as YYYY-MM-DD with month
\* and day padded to two digits, whichever encoding is used.
Canonical(y, m, d) ==
  Digits(y) \o "-" \o (IF m < 10 THEN "0" ELSE "") \o Digits(m)
            \o "-" \o (IF d < 10 THEN "0" ELSE "") \o Digits(d)

C5_CanonicalDate ==
  \A r \in Requests :
    \A y \in Years, m \in Months, d \in Days :
      \A ey \in Encodings, em \in Encodings, ed \in Encodings :
        (/\ pc[r] = "done"
         /\ req[r] = Req(Sess(Params(JStr("P100"), JStr("Acme"),
                                     Dob(Encode(y, ey), Encode(m, em), Encode(d, ed))))))
        => /\ calls[r] = 1
           /\ dob_string[r] = Canonical(y, m, d)

\* C6: when initialization of the store has failed and been logged, the
\* process is not brought down: it goes on to serve.
C6_StartupSurvives == init_error => proc /= "crashed"

\* C7: a step of the handler leaves the patients collection, and the
\* process-level state, as they were.
C7_ReadOnly ==
  [][(\E r \in Requests : pc'[r] /= pc[r]) =>
       (store' = store /\ app' = app /\ proc' = proc)]_vars

C7_Witness ==
  \E r \in Requests :
    /\ pc[r] = "done"
    /\ calls[r] = 1
    /\ fault[r] = NoFault
    /\ reply[r] = Envelope(NOT_FOUND)
    /\ store /= {}
    /\ store = seen[r]

\* C8: a request issues at most one lookup; a lookup that faults is not run
\* again, and its apology is the answer of that same request.
C8_NoRetry ==
  \A r \in Requests :
    /\ calls[r] <= 1
    /\ fault[r] /= NoFault =>
         /\ calls[r] = 1
         /\ Answered(r)
         /\ response_text[r] = QueryFailedText(fault[r])

C8_Witness ==
  \E r \in Requests :
    /\ pc[r] = "done"
    /\ fault[r] /= NoFault
    /\ calls[r] = 1
    /\ reply[r] = Envelope(APOLOGY)
    /\ \E q \in Requests : q /= r /\ pc[q] = "query"

\* C9: whatever the interleaving with other calls, the answer of a call is
\* the one the handler gives alone for the same body, the same collection
\* contents and the same store fault.
C9_Independent ==
  \A r \in Requests :
    pc[r] = "done" => reply[r] = webhook(req[r], seen[r], fault[r])

C9_Witness ==
  \E r \in Requests, q \in Requests :
    /\ r /= q
    /\ pc[r] = "done" /\ pc[q] = "done"
    /\ calls[r] = 1 /\ calls[q] = 1
    /\ fault[r] = NoFault /\ fault[q] = NoFault
    /\ req[r] /= req[q]
    /\ reply[r] /= reply[q]

\* C10: with policy number and provider given and a date of birth that has a
\* year but no month and/or no day, the request is looked up with "00" in
\* the place of the absent component and is not answered with the prompt.
IntLike(vals) == {Encode(n, e) : n \in vals, e \in {"int", "str", "float"}}
PartialDob(body) ==
  /\ Complete(body)
  /\ LET dob == SentParams(body).date_of_birth IN
       /\ IsDict(dob)
       /\ HasKey(dob, "year") /\ dob.year \in IntLike(Years)
       /\ ~HasKey(dob, "month") \/ ~HasKey(dob, "day")
       /\ HasKey(dob, "month") => dob.month \in IntLike(Months)
       /\ HasKey(dob, "day") => dob.day \in IntLike(Days)

C10_AbsentDefaultsToZero ==
  \A r \in Requests :
    PartialDob(req[r]) =>
      LET dob == SentParams(req[r]).date_of_birth
          n == Len(dob_string[r])
      IN /\ pc[r] \in {"query", "render", "done"} =>
              /\ n >= 7
              /\ ~HasKey(dob, "month") => SubSeq(dob_string[r], n - 4, n - 3) = "00"
              /\ ~HasKey(dob, "day") => SubSeq(dob_string[r], n - 1, n) = "00"
         /\ Answered(r) => (calls[r] = 1 /\ response_text[r] /= PROMPT)
         /\ pc[r] = "done" => WellFormedEnvelope(reply[r])

C10_Witness ==
  \E r \in Requests :
    /\ pc[r] = "done"
    /\ SentParams(req[r]).date_of_birth = Dob(JInt(2024), Absent, Absent)
    /\ dob_string[r] = "2024-00-00"
    /\ calls[r] = 1
    /\ WellFormedEnvelope(reply[r])

====
